---- MODULE Spec2Model ----
(***************************************************************************)
(* haskell-taboo: the banned-identifier scan of src/main.rs.               *)
(*                                                                         *)
(* The model covers main (from the call of check_paths_for_banned_words    *)
(* to the exit status) and check_paths_for_banned_words itself: the loop   *)
(* over the paths, the membership test of every captured identifier, the   *)
(* one-time banner, the byte-offset line extraction and the diagnostic.    *)
(*                                                                         *)
(* The file system and the tree-sitter parser are the environment: what a  *)
(* path holds (whether it opens, whether it parses, its bytes, the         *)
(* identifier nodes the query captures) is chosen when the path is opened. *)
(* Byte offsets are 0-based as in the source; Slice(s, a, b) is s[a..b].   *)
(***************************************************************************)
EXTENDS Integers, Sequences, FiniteSets, TLC

\* ------------------------------------------------------------------ bounds
MaxFiles == 2   \* length of `paths`
MaxLineLen == 3 \* bytes of a buffer of the line-extraction specification

\* ------------------------------------------------------------------- bytes
LF == 10        \* '\n' as u8
CR == 13        \* '\r' as u8
Replacement == 65533 \* U+FFFD, what from_utf8_lossy puts for an invalid byte

\* The bytes a mapped file is made of here: the two line breaks, the letter
\* 'a' (97) and 0xFF, a byte that is never part of valid UTF-8.
Byte == {LF, CR, 97, 255}

TextByte == {LF, CR, 97}

\* The words a taboo list may hold here: "a" and "A". banned_words_from
\* yields trimmed, non-empty lines, so every word is a non-empty string.
BannedWords == {<<97>>, <<65>>}

\* The optional index of rposition / position: None, or Some(i) as i >= 0.
None == -1

VARIABLES
    banned_words_set,  \* HashSet<String>, the argument of the scan
    npaths,            \* paths.len()
    opened,            \* what each path taken by the for loop turned out to hold
    pc,                \* "loop", "names", "returned", "err", "panic", "exit"; "extract", "extracted" in SpecLine
    capture_i,         \* captures of the current file the iterator has handed out
    seen_banned_word,  \* the flag of line 71
    out,               \* lines written so far, stdout and stderr in program order
    locals,            \* the bindings of lines 95-110 for the last match
    result,            \* what the scan returned: "none", "Ok(false)", "Ok(true)", "Err"
    exit_code,         \* "running", "SUCCESS", "FAILURE", "PANIC" (status 101)
    panic_at           \* "none", "utf8_text" (line 85), "slice" (lines 97-110), "unwrap" (line 40)

vars == <<banned_words_set, npaths, opened, pc, capture_i, seen_banned_word, out,
          locals, result, exit_code, panic_at>>

\* ---------------------------------------------------------------- slices
\* &s[a..b]: defined only when a <= b <= s.len(), a panic otherwise.
SliceOk(s, a, b) == a <= b /\ b <= Len(s)

Slice(s, a, b) == SubSeq(s, a + 1, b)

\* |b| *b == '\n' as u8 || *b == '\r' as u8
IsLineBreak(b) == b = LF \/ b = CR

\* s.iter().rposition(pred): the index of the last element satisfying it.
RPosition(s) ==
    LET hits == {i \in 0..(Len(s) - 1) : IsLineBreak(s[i + 1])}
    IN  IF hits = {} THEN None ELSE CHOOSE i \in hits : \A j \in hits : j <= i

\* s.iter().position(pred): the index of the first element satisfying it.
Position(s) ==
    LET hits == {i \in 0..(Len(s) - 1) : IsLineBreak(s[i + 1])}
    IN  IF hits = {} THEN None ELSE CHOOSE i \in hits : \A j \in hits : i <= j

\* lines 97-102: rposition over slice_before, .map(|b| b + 1).unwrap_or(0)
LineFirstChar(mmap_slice, start_byte) ==
    LET slice_before == Slice(mmap_slice, 0, start_byte)
        p == RPosition(slice_before)
    IN  IF p = None THEN 0 ELSE p + 1

\* lines 103-107: end_byte + position over slice_after, .unwrap_or(mmap_slice.len())
LineLastChar(mmap_slice, end_byte) ==
    LET slice_after == Slice(mmap_slice, end_byte, Len(mmap_slice))
        p == Position(slice_after)
    IN  end_byte + (IF p = None THEN Len(mmap_slice) ELSE p)

\* lines 95-110 as a whole: the indices, whether every slice taken is in
\* bounds, and the two context slices when they are.
ExtractLine(mmap_slice, start_byte, end_byte) ==
    LET before_ok == SliceOk(mmap_slice, 0, start_byte)
        after_ok == SliceOk(mmap_slice, end_byte, Len(mmap_slice))
        first == IF before_ok THEN LineFirstChar(mmap_slice, start_byte) ELSE 0
        last == IF after_ok THEN LineLastChar(mmap_slice, end_byte) ELSE 0
        ok == /\ before_ok
              /\ after_ok
              /\ SliceOk(mmap_slice, first, start_byte)
              /\ SliceOk(mmap_slice, end_byte, last)
    IN  [ok |-> ok,
         line_first_char |-> first,
         line_last_char |-> last,
         pre_banned |-> IF ok THEN Slice(mmap_slice, first, start_byte) ELSE <<>>,
         post_banned |-> IF ok THEN Slice(mmap_slice, end_byte, last) ELSE <<>>]

\* ------------------------------------------------------------------ text
\* str::from_utf8 on the bytes of Byte: ASCII is valid, 0xFF never is.
Utf8Valid(s) == \A i \in DOMAIN s : s[i] < 128

\* String::from_utf8_lossy on the bytes of Byte.
Utf8Lossy(s) == [i \in DOMAIN s |-> IF s[i] < 128 THEN s[i] ELSE Replacement]

\* capture.node.utf8_text(mmap_slice): the node's bytes.
NodeBytes(mmap_slice, node) == Slice(mmap_slice, node.start_byte, node.end_byte)

\* Faulty variant: a prefix test (str::starts_with) in place of set membership.
Contains_StartsWith(set, text) ==
    \E w \in set : Len(w) <= Len(text) /\ SubSeq(text, 1, Len(w)) = w

\* banned_words_set.contains(text)
Contains(set, text) == text \in set

\* ---------------------------------------------------------- the environment
SeqsUpTo(S, n) == UNION {[1..k -> S] : k \in 0..n}

\* The point tree-sitter gives a node starting at byte `at`: the row counts
\* the '\n' bytes before it, the column the bytes since the last of them.
PointOf(buf, at) ==
    LET lfs == {i \in 1..at : buf[i] = LF}
    IN  [row |-> Cardinality(lfs),
         column |-> IF lfs = {} THEN at ELSE at - (CHOOSE i \in lfs : \A j \in lfs : j <= i)]

\* The (variable) nodes a tree over `buf` can hold: a non-empty byte span
\* that crosses no line break, with the point of its first byte.
NodesOf(buf) ==
    {[start_byte |-> s, end_byte |-> e,
      row |-> PointOf(buf, s).row, column |-> PointOf(buf, s).column] :
        <<s, e>> \in {se \in (0..Len(buf)) \X (0..Len(buf)) :
                        /\ se[1] < se[2]
                        /\ \A i \in (se[1] + 1)..se[2] : ~IsLineBreak(buf[i])}}

\* The capture streams the query yields over `buf`: leaf nodes in document
\* order, none overlapping the one before it.
CapturesOf(buf) ==
    {cs \in SeqsUpTo(NodesOf(buf), Len(buf)) :
        \A i \in 1..(Len(cs) - 1) : cs[i].end_byte <= cs[i + 1].start_byte}

\* Three-byte files in which an identifier has context on its line and a
\* line break after it: "aa\n", 0xFF "a\r" and "\na\r".
ContextBuffers == {<<97, 97, LF>>, <<255, 97, CR>>, <<LF, 97, CR>>}

\* The mapped files of the scan: the empty file, every file of one or of two
\* text bytes, and the context files. (SpecLine runs the line extraction on
\* every buffer of up to MaxLineLen bytes of Byte.)
Buffers ==
    {<<>>} \cup {<<b>> : b \in TextByte} \cup {<<b, c>> : b \in TextByte, c \in TextByte}
    \cup ContextBuffers

\* What a path can turn out to hold: it does not open (or map); it maps but
\* the parser returns no tree; it maps, parses and the query yields captures.
Unopenable == [openable |-> FALSE, tree |-> FALSE, mmap_slice |-> <<>>, captures |-> <<>>]

Files ==
    {Unopenable}
    \cup {[openable |-> TRUE, tree |-> FALSE, mmap_slice |-> b, captures |-> <<>>] :
            b \in Buffers}
    \cup UNION {{[openable |-> TRUE, tree |-> TRUE, mmap_slice |-> b, captures |-> cs] :
                    cs \in CapturesOf(b)} : b \in Buffers}

\* ----------------------------------------------------------------- output
\* println!("ERROR: Banned identifiers found"); println!("Found the following issues:");
Banner ==
    <<[stream |-> "stdout", line |-> "ERROR: Banned identifiers found"],
      [stream |-> "stdout", line |-> "Found the following issues:"]>>

\* eprintln!("({}:{}:{}) {}{}{}", path, row + 1, column, pre, text (red, bold), post)
Diagnostic(path, node, text, ex) ==
    [stream |-> "stderr",
     path |-> path,
     row |-> node.row + 1,
     column |-> node.column,
     pre |-> Utf8Lossy(ex.pre_banned),
     text |-> text,
     post |-> Utf8Lossy(ex.post_banned)]

NoLocals ==
    [mmap_slice |-> <<>>, start_byte |-> 0, end_byte |-> 0, done |-> FALSE, ok |-> FALSE,
     line_first_char |-> 0, line_last_char |-> 0, pre_banned |-> <<>>, post_banned |-> <<>>]

\* The bindings of lines 95-110 after the extraction ran on a span.
LocalsOf(mmap_slice, start_byte, end_byte) ==
    LET ex == ExtractLine(mmap_slice, start_byte, end_byte)
    IN  [mmap_slice |-> mmap_slice, start_byte |-> start_byte, end_byte |-> end_byte,
         done |-> TRUE, ok |-> ex.ok,
         line_first_char |-> ex.line_first_char, line_last_char |-> ex.line_last_char,
         pre_banned |-> ex.pre_banned, post_banned |-> ex.post_banned]

\* ------------------------------------------------------------------- state
\* main has built banned_words_set and test_paths and calls the scan;
\* line 71: let mut seen_banned_word = false.
Init ==
    /\ banned_words_set \in SUBSET BannedWords
    /\ npaths \in 0..MaxFiles
    /\ opened = <<>>
    /\ pc = "loop"
    /\ capture_i = 0
    /\ seen_banned_word = FALSE
    /\ out = <<>>
    /\ locals = NoLocals
    /\ result = "none"
    /\ exit_code = "running"
    /\ panic_at = "none"

\* The file the loop body is working on, its 1-based place in `paths`.
path == Len(opened)

file == opened[Len(opened)]

\* Faulty variant: a path that does not open is passed over like an unparseable one.
OpenFails_Skips ==
    /\ pc = "loop"
    /\ Len(opened) < npaths
    /\ opened' = Append(opened, Unopenable)
    /\ UNCHANGED <<banned_words_set, npaths, pc, capture_i, seen_banned_word, out, locals,
                   result, exit_code, panic_at>>

\* Faulty variant: the output is held back and dropped when a path does not open.
OpenFails_DropsOutput ==
    /\ pc = "loop"
    /\ Len(opened) < npaths
    /\ opened' = Append(opened, Unopenable)
    /\ pc' = "err"
    /\ result' = "Err"
    /\ out' = <<>>
    /\ UNCHANGED <<banned_words_set, npaths, capture_i, seen_banned_word, locals,
                   exit_code, panic_at>>

\* lines 74-75: File::open(&path)? / Mmap::map(&file)? fails, Err is returned.
OpenFails ==
    /\ pc = "loop"
    /\ Len(opened) < npaths
    /\ opened' = Append(opened, Unopenable)
    /\ pc' = "err"
    /\ result' = "Err"
    /\ UNCHANGED <<banned_words_set, npaths, capture_i, seen_banned_word, out, locals,
                   exit_code, panic_at>>

\* Faulty variant: a parse failure is treated as an error of the run.
SkipUnparsed_Aborts ==
    /\ pc = "loop"
    /\ Len(opened) < npaths
    /\ \E f \in Files :
        /\ f.openable
        /\ ~f.tree
        /\ opened' = Append(opened, f)
    /\ pc' = "err"
    /\ result' = "Err"
    /\ UNCHANGED <<banned_words_set, npaths, capture_i, seen_banned_word, out, locals,
                   exit_code, panic_at>>

\* lines 74-79: the path maps, parser.parse returns None: nothing is done.
SkipUnparsed ==
    /\ pc = "loop"
    /\ Len(opened) < npaths
    /\ \E f \in Files :
        /\ f.openable
        /\ ~f.tree
        /\ opened' = Append(opened, f)
    /\ pc' = "loop"
    /\ UNCHANGED <<banned_words_set, npaths, capture_i, seen_banned_word, out, locals,
                   result, exit_code, panic_at>>

\* Faulty variant: the flag is declared inside the for loop, so every file resets it.
BeginNames_ResetsFlag ==
    /\ pc = "loop"
    /\ Len(opened) < npaths
    /\ \E f \in Files :
        /\ f.openable
        /\ f.tree
        /\ opened' = Append(opened, f)
    /\ pc' = "names"
    /\ capture_i' = 0
    /\ seen_banned_word' = FALSE
    /\ UNCHANGED <<banned_words_set, npaths, out, locals, result, exit_code, panic_at>>

\* lines 74-81: the path maps and parses; the query cursor is set up.
BeginNames ==
    /\ pc = "loop"
    /\ Len(opened) < npaths
    /\ \E f \in Files :
        /\ f.openable
        /\ f.tree
        /\ opened' = Append(opened, f)
    /\ pc' = "names"
    /\ capture_i' = 0
    /\ UNCHANGED <<banned_words_set, npaths, seen_banned_word, out, locals, result,
                   exit_code, panic_at>>

\* The capture the loops of lines 83-84 hand out next.
node == file.captures[capture_i + 1]

HasCapture == pc = "names" /\ capture_i < Len(file.captures)

\* line 85: utf8_text(..).unwrap() on bytes that are not UTF-8.
CaptureNotUtf8 ==
    /\ HasCapture
    /\ ~Utf8Valid(NodeBytes(file.mmap_slice, node))
    /\ capture_i' = capture_i + 1
    /\ pc' = "panic"
    /\ panic_at' = "utf8_text"
    /\ exit_code' = "PANIC"
    /\ UNCHANGED <<banned_words_set, npaths, opened, seen_banned_word, out, locals, result>>

\* lines 85-87: the text is not in the set; the next capture is taken.
CaptureNotBanned ==
    /\ HasCapture
    /\ Utf8Valid(NodeBytes(file.mmap_slice, node))
    /\ ~Contains(banned_words_set, NodeBytes(file.mmap_slice, node))
    /\ capture_i' = capture_i + 1
    /\ UNCHANGED <<banned_words_set, npaths, opened, pc, seen_banned_word, out, locals,
                   result, exit_code, panic_at>>

\* Faulty variant: the banner is written for every match.
BannerIfFirst_Always(seen) == Banner

\* lines 88-93: what the first match of the run writes before its diagnostic.
BannerIfFirst(seen) == IF ~seen THEN Banner ELSE <<>>

\* lines 87-121: the text is in the set. The banner goes out if this is the
\* first match, then the line is extracted; a slice out of bounds panics,
\* after the banner and before the diagnostic.
CaptureBanned ==
    /\ HasCapture
    /\ Utf8Valid(NodeBytes(file.mmap_slice, node))
    /\ Contains(banned_words_set, NodeBytes(file.mmap_slice, node))
    /\ seen_banned_word' = TRUE
    /\ capture_i' = capture_i + 1
    /\ locals' = LocalsOf(file.mmap_slice, node.start_byte, node.end_byte)
    /\ IF locals'.ok
       THEN /\ out' = out \o BannerIfFirst(seen_banned_word)
                          \o <<Diagnostic(path, node, NodeBytes(file.mmap_slice, node), locals')>>
            /\ UNCHANGED <<pc, exit_code, panic_at>>
       ELSE /\ out' = out \o BannerIfFirst(seen_banned_word)
            /\ pc' = "panic"
            /\ panic_at' = "slice"
            /\ exit_code' = "PANIC"
    /\ UNCHANGED <<banned_words_set, npaths, opened, result>>

\* line 83: names.next() is None; the for loop goes to the next path.
EndNames ==
    /\ pc = "names"
    /\ capture_i = Len(file.captures)
    /\ pc' = "loop"
    /\ UNCHANGED <<banned_words_set, npaths, opened, capture_i, seen_banned_word, out,
                   locals, result, exit_code, panic_at>>

\* line 127: io::Result::Ok(seen_banned_word)
Return ==
    /\ pc = "loop"
    /\ Len(opened) = npaths
    /\ result' = IF seen_banned_word THEN "Ok(true)" ELSE "Ok(false)"
    /\ pc' = "returned"
    /\ UNCHANGED <<banned_words_set, npaths, opened, capture_i, seen_banned_word, out,
                   locals, exit_code, panic_at>>

\* lines 39-43: .unwrap() of an Ok, then the exit code from the verdict.
MainExit ==
    /\ pc = "returned"
    /\ exit_code' = IF result = "Ok(true)" THEN "FAILURE" ELSE "SUCCESS"
    /\ pc' = "exit"
    /\ UNCHANGED <<banned_words_set, npaths, opened, capture_i, seen_banned_word, out,
                   locals, result, panic_at>>

\* line 40: .unwrap() of an Err panics; the process ends with status 101.
MainUnwrapErr ==
    /\ pc = "err"
    /\ pc' = "panic"
    /\ panic_at' = "unwrap"
    /\ exit_code' = "PANIC"
    /\ UNCHANGED <<banned_words_set, npaths, opened, capture_i, seen_banned_word, out,
                   locals, result>>

Next ==
    \/ OpenFails
    \/ SkipUnparsed
    \/ BeginNames
    \/ CaptureNotUtf8
    \/ CaptureNotBanned
    \/ CaptureBanned
    \/ EndNames
    \/ Return
    \/ MainExit
    \/ MainUnwrapErr

Spec == Init /\ [][Next]_vars

\* ------------------------------------------------- line extraction alone
\* Lines 95-110 on every buffer of at most MaxLineLen bytes and every
\* non-empty span [start_byte, end_byte) inside it.
LineBuffers == SeqsUpTo(Byte, MaxLineLen)

InitLine ==
    /\ banned_words_set = {}
    /\ npaths = 0
    /\ opened = <<>>
    /\ pc = "extract"
    /\ capture_i = 0
    /\ seen_banned_word = FALSE
    /\ out = <<>>
    /\ \E b \in LineBuffers : \E s \in 0..Len(b) : \E e \in 0..Len(b) :
        /\ s < e
        /\ locals = [NoLocals EXCEPT !.mmap_slice = b, !.start_byte = s, !.end_byte = e]
    /\ result = "none"
    /\ exit_code = "running"
    /\ panic_at = "none"

ExtractStep ==
    /\ pc = "extract"
    /\ locals' = LocalsOf(locals.mmap_slice, locals.start_byte, locals.end_byte)
    /\ pc' = IF locals'.ok THEN "extracted" ELSE "panic"
    /\ panic_at' = IF locals'.ok THEN "none" ELSE "slice"
    /\ UNCHANGED <<banned_words_set, npaths, opened, capture_i, seen_banned_word, out,
                   result, exit_code>>

NextLine == ExtractStep

SpecLine == InitLine /\ [][NextLine]_vars

\* ============================================================ properties
\* What the properties are stated in: the history of the run (the files
\* opened and the captures handed out so far) and the physical line of a
\* span, both defined without reference to the scan's own bookkeeping.

Min(a, b) == IF a <= b THEN a ELSE b

\* The captures of the i-th opened file that the scan has been handed.
Consumed(i) ==
    IF i < Len(opened)
    THEN opened[i].captures
    ELSE SubSeq(opened[i].captures, 1, Min(capture_i, Len(opened[i].captures)))

\* A capture whose text is byte-for-byte a member of the set.
IsMatch(f, c) == \E w \in banned_words_set : w = NodeBytes(f.mmap_slice, c)

MatchesOf(i) == SelectSeq(Consumed(i), LAMBDA c : IsMatch(opened[i], c))

\* Some capture of some parsed file, handed out or not, is a match.
SomeMatch ==
    \E i \in DOMAIN opened : \E k \in DOMAIN opened[i].captures :
        opened[i].tree /\ IsMatch(opened[i], opened[i].captures[k])

\* The physical line around [s, e): the longest stretch without line break.
LineStartOf(buf, s) ==
    CHOOSE a \in 0..s :
        /\ \A i \in (a + 1)..s : ~IsLineBreak(buf[i])
        /\ a > 0 => IsLineBreak(buf[a])

LineEndOf(buf, e) ==
    CHOOSE z \in e..Len(buf) :
        /\ \A i \in (e + 1)..z : ~IsLineBreak(buf[i])
        /\ z < Len(buf) => IsLineBreak(buf[z + 1])

\* Context bytes as they are shown: 0xFF, not being UTF-8, as U+FFFD.
Shown(s) == [k \in DOMAIN s |-> IF s[k] = 255 THEN 65533 ELSE s[k]]

\* The diagnostic line a match of the i-th file is due.
DueLine(i, c) ==
    LET buf == opened[i].mmap_slice
    IN  [stream |-> "stderr",
         path |-> i,
         row |-> c.row + 1,
         column |-> c.column,
         pre |-> Shown(Slice(buf, LineStartOf(buf, c.start_byte), c.start_byte)),
         text |-> NodeBytes(buf, c),
         post |-> Shown(Slice(buf, c.end_byte, LineEndOf(buf, c.end_byte)))]

RECURSIVE DueLines(_, _)
\* The diagnostics due for the matches handed out in files i..n, in order.
DueLines(i, n) ==
    IF i > n
    THEN <<>>
    ELSE [k \in 1..Len(MatchesOf(i)) |-> DueLine(i, MatchesOf(i)[k])] \o DueLines(i + 1, n)

StderrLines == SelectSeq(out, LAMBDA l : l.stream = "stderr")

StdoutLines == SelectSeq(out, LAMBDA l : l.stream = "stdout")

BannerCount ==
    Cardinality({i \in DOMAIN out :
        out[i].stream = "stdout" /\ out[i].line = "ERROR: Banned identifiers found"})

Returned == result \in {"Ok(true)", "Ok(false)"}

\* The last path taken could not be opened or mapped.
OpenFailed == opened # <<>> /\ ~opened[Len(opened)].openable

\* ---------------------------------------------------------------------- C1
\* C1: a returned verdict is true exactly when some capture of some parsed
\* file has text byte-for-byte equal to a member of the set; with the empty
\* set the returned verdict is false.
C1_VerdictIffExactMatch ==
    Returned =>
        /\ Len(opened) = npaths
        /\ (result = "Ok(true)") <=> SomeMatch
        /\ banned_words_set = {} => result = "Ok(false)"

\* A verdict of false although "a" and "A" are banned and a parsed file
\* holds the identifier "aa".
C1_Witness ==
    /\ result = "Ok(false)"
    /\ banned_words_set = {<<97>>, <<65>>}
    /\ \E i \in DOMAIN opened : \E k \in DOMAIN opened[i].captures :
        NodeBytes(opened[i].mmap_slice, opened[i].captures[k]) = <<97, 97>>

\* ---------------------------------------------------------------------- C2
\* C2: after the extraction of a valid non-empty span, 0 <= line_first_char
\* <= start_byte < end_byte <= line_last_char <= buffer length, and no slice
\* was taken out of bounds.
C2_IndicesInBounds ==
    locals.done =>
        /\ 0 <= locals.line_first_char
        /\ locals.line_first_char <= locals.start_byte
        /\ locals.start_byte < locals.end_byte
        /\ locals.end_byte <= locals.line_last_char
        /\ locals.line_last_char <= Len(locals.mmap_slice)
        /\ locals.ok

\* ---------------------------------------------------------------------- C3
\* C3: for a span inside one physical line, the extraction succeeds and
\* prefix + matched + suffix is that physical line; the prefix is empty for
\* a span starting at byte 0, the suffix for one ending at the buffer's end.
SpanInOneLine ==
    \A i \in (locals.start_byte + 1)..locals.end_byte : ~IsLineBreak(locals.mmap_slice[i])

C3_PhysicalLine ==
    (locals.done /\ SpanInOneLine) =>
        /\ locals.ok
        /\ locals.pre_banned
             \o Slice(locals.mmap_slice, locals.start_byte, locals.end_byte)
             \o locals.post_banned
           = Slice(locals.mmap_slice,
                   LineStartOf(locals.mmap_slice, locals.start_byte),
                   LineEndOf(locals.mmap_slice, locals.end_byte))
        /\ locals.start_byte = 0 => locals.pre_banned = <<>>
        /\ locals.end_byte = Len(locals.mmap_slice) => locals.post_banned = <<>>

\* ---------------------------------------------------------------------- C4
\* C4: the banner is written at most once, never after a diagnostic, not at
\* all while no match has been handed out, and a step writes it exactly when
\* it handles the first match of the run.
RECURSIVE MatchesUpTo(_)
MatchesUpTo(n) == IF n = 0 THEN 0 ELSE Len(MatchesOf(n)) + MatchesUpTo(n - 1)

\* The matches handed out so far, over all files.
MatchCount == MatchesUpTo(Len(opened))

C4_BannerState ==
    /\ BannerCount <= 1
    /\ MatchCount = 0 => out = <<>>
    /\ \A i \in DOMAIN out : out[i].stream = "stdout" => i <= Len(Banner)

C4_BannerStep ==
    BannerCount' = BannerCount + (IF MatchCount = 0 /\ MatchCount' > 0 THEN 1 ELSE 0)

C4_BannerOnce == [](C4_BannerState) /\ [][C4_BannerStep]_vars

\* One banner, then matches reported in both of two files.
C4_Witness ==
    /\ BannerCount = 1
    /\ \E i \in DOMAIN out : out[i].stream = "stderr" /\ out[i].path = 1
    /\ \E i \in DOMAIN out : out[i].stream = "stderr" /\ out[i].path = 2

\* ---------------------------------------------------------------------- C5
\* C5: the diagnostics written are, in order, one line for every match handed
\* out so far (file order, then capture order), and a run that ended without
\* an open failure and without a non-UTF-8 token has gone through every
\* capture of every path.
C5_OneLinePerMatchInOrder ==
    /\ Len(StderrLines) = MatchCount
    /\ \A k \in DOMAIN StderrLines :
        /\ StderrLines[k].path = DueLines(1, Len(opened))[k].path
        /\ StderrLines[k].row = DueLines(1, Len(opened))[k].row
        /\ StderrLines[k].column = DueLines(1, Len(opened))[k].column
        /\ StderrLines[k].text = DueLines(1, Len(opened))[k].text
    /\ (pc \in {"returned", "exit"} \/ panic_at = "slice") =>
        /\ Len(opened) = npaths
        /\ \A i \in DOMAIN opened : Consumed(i) = opened[i].captures

\* ---------------------------------------------------------------------- C6
\* C6: the step that takes a path whose parse gives no tree writes nothing,
\* leaves the flag, raises nothing and leaves the loop ready for the next path.
SkipStep ==
    /\ Len(opened') = Len(opened) + 1
    /\ opened'[Len(opened')].openable
    /\ ~opened'[Len(opened')].tree

C6_UnparsedSkipped ==
    [][SkipStep =>
        /\ out' = out
        /\ seen_banned_word' = seen_banned_word
        /\ result' = "none"
        /\ panic_at' = "none"
        /\ exit_code' = "running"
        /\ pc' = "loop"]_vars

\* A skipped first file whose bytes spell a banned word, the flag still
\* false after it, and the second path taken afterwards.
C6_Witness ==
    /\ Len(opened) = 2
    /\ opened[1].openable
    /\ ~opened[1].tree
    /\ opened[1].mmap_slice \in banned_words_set
    /\ opened[2].tree
    /\ ~seen_banned_word

\* ---------------------------------------------------------------------- C7
\* C7: once a path failed to open, Err is what the scan returned, no verdict
\* is ever returned, no further path is taken and nothing more is written,
\* and the process never exits with success: main's unwrap ends it with the
\* panic status.
C7_AbortState ==
    OpenFailed =>
        /\ result = "Err"
        /\ pc \in {"err", "panic"}
        /\ exit_code \in {"running", "PANIC"}
        /\ pc = "panic" => (exit_code = "PANIC" /\ panic_at = "unwrap")

C7_AbortStep ==
    OpenFailed => (opened' = opened /\ out' = out /\ result' = result /\ capture_i' = capture_i)

C7_OpenFailureAborts == [](C7_AbortState) /\ [][C7_AbortStep]_vars

\* The first of two paths fails, nothing banned was seen, the process is over.
C7_Witness ==
    /\ OpenFailed
    /\ Len(opened) = 1
    /\ npaths = 2
    /\ ~seen_banned_word
    /\ exit_code = "PANIC"

C9_FlagMonotonic ==
    [](opened = <<>> => ~seen_banned_word)
    /\ [][seen_banned_word => seen_banned_word']_vars

\* The flag is still true after a later file was skipped as unparseable.
C9_Witness ==
    /\ seen_banned_word
    /\ Len(opened) = 2
    /\ opened[2].openable
    /\ ~opened[2].tree
    /\ pc = "exit"

\* --------------------------------------------------------------------- C10
\* C10: whenever the flag is set (the banner is out), a diagnostic line is
\* out too, however the run goes on or ends.
C10_BannerHasDiagnostic ==
    (seen_banned_word \/ BannerCount > 0) => Len(StderrLines) >= 1

====
